---- MODULE Spec2Model ----
(***************************************************************************)
(* License server (src/app.py): the license store, the global hardware-id  *)
(* denylist, the client operations validate / logout and the               *)
(* administrative operations, as a state machine.                          *)
(*                                                                         *)
(* Python values are modelled as follows.                                  *)
(*   None                  the empty tuple <<>>                            *)
(*   an ISO timestamp      <<t>>, t the instant in seconds (isoformat /    *)
(*                         parse_dt convert between the two)               *)
(*   a sha256 hex digest   <<"sha256", hwid>> (hash_hwid)                  *)
(*   a dict                a function whose DOMAIN is the set of keys      *)
(* The payload fields created_at, banned_at and note of a license record   *)
(* are written but never read by any handler and are left out.  An audit   *)
(* entry is modelled by its event kind.                                    *)
(***************************************************************************)
EXTENDS Integers, Sequences, FiniteSets, TLC

VARIABLES
    licenses,      \* db["licenses"]: license_key -> license record
    banned_hwids,  \* db["banned_hwids"]: hwid_hash -> denylist entry
    now,           \* the wall clock read by datetime.now(TIMEZONE)
    env,           \* what the behaviour follows: [audit: the audit trail is
                   \* kept, keys: the keys the random draw can return]
    last,          \* the request handled last: its inputs, the clock and the
                   \* addressed record when it arrived, and its response
    inflight       \* requests being handled concurrently (thread -> frame)

vars == <<licenses, banned_hwids, now, env, last, inflight>>

None == <<>>

\* ------------------------------------------------------------------ bounds
MaxNow == 61          \* the clock is followed up to this instant
MaxExpiry == 180000   \* extend is followed while the new expiry is below this
MaxLogged == 5        \* requests are followed while an audit trail is shorter

\* -------------------------------------------------------- program constants
LogCap == 50
DemoSeconds == 60
TrialSeconds == 21600
TwoWeeksSeconds == 1209600
MonthSeconds == 2592000
DaySeconds == 86400

\* ------------------------------------------------------------ input spaces
\* keys named by client requests (one of them was never issued) and by the
\* administrator, who picks keys from the dashboard's list
KeyInputs == {"DTC_Absolut_0a", "DTC_Zubrowka_ff"}
AdminKeys == {"DTC_Absolut_0a"}
Hwids == {"pcA", " pcB "}
DurationInputs == {"lifetime", "demo_1min", "trial_6hours", "bogus"}
ExtendDays == {1, 2}
BanReasons == {"cheat"}
TickDeltas == {DemoSeconds, DemoSeconds + 1}
Threads == {1, 2}

\* str.lower() on the keys of the input space
lower(k) ==
    CASE k = "DTC_Absolut_0a" -> "dtc_absolut_0a"
      [] k = "DTC_Bacardi_0b" -> "dtc_bacardi_0b"
      [] k = "DTC_Zubrowka_ff" -> "dtc_zubrowka_ff"
      [] OTHER -> k

\* str.strip() on the hardware ids of the input space
strip(s) == IF s = " pcB " THEN "pcB" ELSE s

hash_hwid(hwid) == <<"sha256", hwid>>

isoformat(t) == <<t>>

parse_dt(iso_str) == iso_str[1]

Max(a, b) == IF a > b THEN a ELSE b

\* lst[:n], the slice from the other end
FirstN(lst, n) ==
    IF Len(lst) <= n THEN lst ELSE SubSeq(lst, 1, n)

\* lst[-n:]
LastN(lst, n) ==
    IF Len(lst) <= n THEN lst ELSE SubSeq(lst, Len(lst) - n + 1, Len(lst))

\* calculate_expires_at with the offsets of the two short classes exchanged
calculate_expires_at_swapped(duration_type, start_time) ==
    CASE duration_type = "lifetime" -> None
      [] duration_type = "demo_1min" -> isoformat(start_time + TrialSeconds)
      [] duration_type = "trial_6hours" -> isoformat(start_time + DemoSeconds)
      [] duration_type = "2weeks" -> isoformat(start_time + TwoWeeksSeconds)
      [] duration_type = "1month" -> isoformat(start_time + MonthSeconds)

calculate_expires_at(duration_type, start_time) ==
    CASE duration_type = "lifetime" -> None
      [] duration_type = "demo_1min" -> isoformat(start_time + DemoSeconds)
      [] duration_type = "trial_6hours" -> isoformat(start_time + TrialSeconds)
      [] duration_type = "2weeks" -> isoformat(start_time + TwoWeeksSeconds)
      [] duration_type = "1month" -> isoformat(start_time + MonthSeconds)

log_event(lic, event) ==
    IF env.audit
    THEN [lic EXCEPT !.logs = LastN(Append(@, event), LogCap)]
    ELSE lic

\* ------------------------------------------------------------- store layer
\* get_license: the stored record whose key matches case-insensitively
\* (has_license: the lookup returned a record and not None)
has_license(db, key) == \E k \in DOMAIN db : lower(k) = lower(key)

get_license(db, key) == db[CHOOSE k \in DOMAIN db : lower(k) = lower(key)]

\* save_license: upsert of one record under its own license_key
save_license(db, lic) ==
    [k \in DOMAIN db \cup {lic.license_key} |->
        IF k = lic.license_key THEN lic ELSE db[k]]

delete_license(db, key) ==
    [k \in {x \in DOMAIN db : lower(x) # lower(key)} |-> db[k]]

get_banned_hwid(bans, hwid_hash) == hwid_hash \in DOMAIN bans

save_banned_hwid(bans, entry) ==
    [h \in DOMAIN bans \cup {entry.hwid_hash} |->
        IF h = entry.hwid_hash THEN entry ELSE bans[h]]

delete_banned_hwid(bans, hwid_hash) ==
    [h \in DOMAIN bans \ {hwid_hash} |-> bans[h]]

\* a handler's outcome: the store it leaves behind and the response it sends
Resp(db, bans, result) == [db |-> db, bans |-> bans, result |-> result]

\* --------------------------------------------------------- /api/generate-key
valid_types == {"lifetime", "2weeks", "1month", "demo_1min", "trial_6hours"}

\* generate_license_key: the keys the random draw can return
generate_license_key(db) == env.keys \ DOMAIN db

new_license(license_key, duration_type, is_warnet) ==
    [license_key |-> license_key,
     hwid |-> None,
     duration_type |-> duration_type,
     expires_at |-> None,
     is_active |-> TRUE,
     is_banned |-> FALSE,
     ban_reason |-> "",
     last_used |-> None,
     is_warnet |-> is_warnet,
     warnet_active_hwid |-> None,
     warnet_session_start |-> None,
     logs |-> <<>>]

generate_key(db, bans, duration_type, is_warnet, license_key) ==
    IF duration_type \notin valid_types
    THEN Resp(db, bans, "InvalidDurationClass")
    ELSE Resp(save_license(db,
                  log_event(new_license(license_key, duration_type, is_warnet),
                            "GENERATED")),
              bans, "Created")

\* ------------------------------------------------------------- /api/validate
\* starts_clock without the test for a stored expiry
starts_clock_on_every_bind(lic) == lic.duration_type # "lifetime"

\* starts_clock that never starts the clock
starts_clock_never(lic) == FALSE

\* the duration clock starts: no expiry stored yet and the class has one
starts_clock(lic) ==
    lic.expires_at = None /\ lic.duration_type # "lifetime"

start_clock(lic, event, other, t) ==
    IF starts_clock(lic)
    THEN log_event([lic EXCEPT
                      !.expires_at = calculate_expires_at(lic.duration_type, t)],
                   event)
    ELSE log_event(lic, other)

\* validate_warnet without the check for a session held by another device
validate_warnet_takeover(lic, hwid_hash, t) ==
    IF lic.warnet_active_hwid # hwid_hash
    THEN [lic |-> start_clock([lic EXCEPT
                                 !.warnet_active_hwid = hwid_hash,
                                 !.warnet_session_start = isoformat(t)],
                              "WARNET_FIRST_ACTIVATION",
                              "WARNET_SESSION_START", t),
          denied |-> ""]
    ELSE [lic |-> log_event(lic, "WARNET_REVALIDATED"), denied |-> ""]

\* MODE WARNET: [lic, denied]
validate_warnet(lic, hwid_hash, t) ==
    IF lic.warnet_active_hwid # None /\ lic.warnet_active_hwid # hwid_hash
    THEN [lic |-> log_event(lic, "WARNET_LOCKED"),
          denied |-> "SessionLockedByOther"]
    ELSE IF lic.warnet_active_hwid = None
    THEN [lic |-> start_clock([lic EXCEPT
                                 !.warnet_active_hwid = hwid_hash,
                                 !.warnet_session_start = isoformat(t)],
                              "WARNET_FIRST_ACTIVATION",
                              "WARNET_SESSION_START", t),
          denied |-> ""]
    ELSE [lic |-> log_event(lic, "WARNET_REVALIDATED"), denied |-> ""]

\* validate_normal that lets a device other than the bound one pass
validate_normal_any_device(lic, hwid_hash, t) ==
    IF lic.hwid = None
    THEN [lic |-> start_clock([lic EXCEPT !.hwid = hwid_hash],
                              "FIRST_ACTIVATION", "HWID_REBOUND", t),
          denied |-> ""]
    ELSE [lic |-> lic, denied |-> ""]

\* MODE NORMAL: [lic, denied]
validate_normal(lic, hwid_hash, t) ==
    IF lic.hwid = None
    THEN [lic |-> start_clock([lic EXCEPT !.hwid = hwid_hash],
                              "FIRST_ACTIVATION", "HWID_REBOUND", t),
          denied |-> ""]
    ELSE IF lic.hwid # hwid_hash
    THEN [lic |-> log_event(lic, "HWID_MISMATCH"),
          denied |-> "FingerprintMismatch"]
    ELSE [lic |-> lic, denied |-> ""]

is_expired(lic, t) ==
    lic.expires_at # None /\ t > parse_dt(lic.expires_at)

\* auto_expire that records the event and leaves the license active
auto_expire_keeps_active(lic) == log_event(lic, "AUTO_EXPIRED")

auto_expire(lic) ==
    log_event(
        IF lic.is_warnet
        THEN [lic EXCEPT !.is_active = FALSE,
                         !.warnet_active_hwid = None,
                         !.warnet_session_start = None]
        ELSE [lic EXCEPT !.is_active = FALSE],
        "AUTO_EXPIRED")

\* validate_license from the mode branch on, for a loaded record that passed
\* the ban and inactive checks: the record to save and the response
validate_loaded(lic, hwid_hash, t) ==
    LET b == IF lic.is_warnet
             THEN validate_warnet(lic, hwid_hash, t)
             ELSE validate_normal(lic, hwid_hash, t)
    IN  IF b.denied # ""
        THEN [lic |-> b.lic, result |-> b.denied]
        ELSE IF is_expired(b.lic, t)
        THEN [lic |-> auto_expire(b.lic), result |-> "DurationEnded"]
        ELSE [lic |-> log_event([b.lic EXCEPT !.last_used = isoformat(t)],
                                "VALIDATED"),
              result |-> "Valid"]

\* the checks on the loaded record that deny without writing
validate_gate(db, key) ==
    IF ~has_license(db, key) THEN "UnknownKey"
    ELSE IF get_license(db, key).is_banned THEN "LicenseBanned"
    ELSE IF ~get_license(db, key).is_active THEN "LicenseInactive"
    ELSE ""

\* validate_license with the denylist looked up after the license
validate_license_denylist_late(db, bans, key, hwid_hash, t) ==
    IF validate_gate(db, key) # ""
    THEN Resp(db, bans, validate_gate(db, key))
    ELSE IF get_banned_hwid(bans, hwid_hash)
    THEN Resp(db, bans, "GloballyBanned")
    ELSE LET r == validate_loaded(get_license(db, key), hwid_hash, t)
         IN  Resp(save_license(db, r.lic), bans, r.result)

\* validate_license that saves the record only when it answers success
validate_license_drops_denials(db, bans, key, hwid_hash, t) ==
    IF get_banned_hwid(bans, hwid_hash)
    THEN Resp(db, bans, "GloballyBanned")
    ELSE IF validate_gate(db, key) # ""
    THEN Resp(db, bans, validate_gate(db, key))
    ELSE LET r == validate_loaded(get_license(db, key), hwid_hash, t)
         IN  IF r.result = "Valid"
             THEN Resp(save_license(db, r.lic), bans, r.result)
             ELSE Resp(db, bans, r.result)

\* validate_license that notes a refusal at the first checks in the trail
validate_license_logs_refusals(db, bans, key, hwid_hash, t) ==
    IF get_banned_hwid(bans, hwid_hash)
    THEN Resp(db, bans, "GloballyBanned")
    ELSE IF ~has_license(db, key)
    THEN Resp(db, bans, "UnknownKey")
    ELSE IF validate_gate(db, key) # ""
    THEN Resp(save_license(db, log_event(get_license(db, key), "REFUSED")),
              bans, validate_gate(db, key))
    ELSE LET r == validate_loaded(get_license(db, key), hwid_hash, t)
         IN  Resp(save_license(db, r.lic), bans, r.result)

validate_license(db, bans, key, hwid_hash, t) ==
    IF get_banned_hwid(bans, hwid_hash)
    THEN Resp(db, bans, "GloballyBanned")
    ELSE IF validate_gate(db, key) # ""
    THEN Resp(db, bans, validate_gate(db, key))
    ELSE LET r == validate_loaded(get_license(db, key), hwid_hash, t)
         IN  Resp(save_license(db, r.lic), bans, r.result)

\* --------------------------------------------------------------- /api/logout
\* logout_license that answers without releasing the session
logout_license_keeps_session(db, bans, key, hwid_hash) ==
    IF ~has_license(db, key)
    THEN Resp(db, bans, "InvalidKey")
    ELSE IF ~get_license(db, key).is_warnet
    THEN Resp(db, bans, "OK")
    ELSE Resp(db, bans, "LoggedOut")

\* logout_license that releases the session whoever asks
logout_license_by_anyone(db, bans, key, hwid_hash) ==
    IF ~has_license(db, key)
    THEN Resp(db, bans, "InvalidKey")
    ELSE IF ~get_license(db, key).is_warnet
    THEN Resp(db, bans, "OK")
    ELSE Resp(save_license(db,
                  log_event([get_license(db, key) EXCEPT
                               !.warnet_active_hwid = None,
                               !.warnet_session_start = None],
                            "WARNET_LOGOUT")),
              bans, "LoggedOut")

logout_license(db, bans, key, hwid_hash) ==
    IF ~has_license(db, key)
    THEN Resp(db, bans, "InvalidKey")
    ELSE LET lic == get_license(db, key)
         IN  IF ~lic.is_warnet
             THEN Resp(db, bans, "OK")
             ELSE IF lic.warnet_active_hwid = hwid_hash
             THEN Resp(save_license(db,
                           log_event([lic EXCEPT
                                        !.warnet_active_hwid = None,
                                        !.warnet_session_start = None],
                                     "WARNET_LOGOUT")),
                       bans, "LoggedOut")
             ELSE Resp(db, bans, "LoggedOut")

\* ------------------------------------------------------------ /admin/api/...
\* an admin handler that loads the record, changes it and saves it
admin_update(db, bans, key, lic) == Resp(save_license(db, lic), bans, "OK")

clear_session(lic) ==
    [lic EXCEPT !.warnet_active_hwid = None, !.warnet_session_start = None]

\* admin_reset_hwid that also forgets the expiry
admin_reset_hwid_restarts(db, bans, key) ==
    IF ~has_license(db, key) THEN Resp(db, bans, "NotFound")
    ELSE admin_update(db, bans, key,
             log_event(clear_session([get_license(db, key) EXCEPT
                                        !.hwid = None, !.expires_at = None]),
                       "HWID_RESET"))

admin_reset_hwid(db, bans, key) ==
    IF ~has_license(db, key) THEN Resp(db, bans, "NotFound")
    ELSE LET lic == [get_license(db, key) EXCEPT !.hwid = None]
         IN  admin_update(db, bans, key,
                 log_event(IF lic.is_warnet THEN clear_session(lic) ELSE lic,
                           "HWID_RESET"))

\* the record admin_ban_license saves
banned_record(lic, reason) ==
    log_event(clear_session([lic EXCEPT !.is_banned = TRUE,
                                        !.is_active = FALSE,
                                        !.ban_reason = reason]),
              "BANNED")

\* the hardware id admin_ban_license puts on the denylist (None: nothing)
cascade_hwid(lic, ban_hwid) ==
    IF ban_hwid /\ lic.hwid # None THEN lic.hwid ELSE None

admin_ban_license(db, bans, key, reason, ban_hwid) ==
    IF ~has_license(db, key) THEN Resp(db, bans, "NotFound")
    ELSE LET lic == banned_record(get_license(db, key), reason)
             h   == cascade_hwid(lic, ban_hwid)
         IN  IF h # None
             THEN Resp(save_license(db, log_event(lic, "HWID_BANNED")),
                       save_banned_hwid(bans,
                           [hwid_hash |-> h, reason |-> reason,
                            license_key |-> lic.license_key]),
                       "OK")
             ELSE Resp(save_license(db, lic), bans, "OK")

\* admin_unban_license that also forgets the expiry
admin_unban_license_renews(db, bans, key) ==
    IF ~has_license(db, key) THEN Resp(db, bans, "NotFound")
    ELSE admin_update(db, bans, key,
             log_event([get_license(db, key) EXCEPT !.is_banned = FALSE,
                                                    !.is_active = TRUE,
                                                    !.ban_reason = "",
                                                    !.expires_at = None],
                       "UNBANNED"))

admin_unban_license(db, bans, key) ==
    IF ~has_license(db, key) THEN Resp(db, bans, "NotFound")
    ELSE admin_update(db, bans, key,
             log_event([get_license(db, key) EXCEPT !.is_banned = FALSE,
                                                    !.is_active = TRUE,
                                                    !.ban_reason = ""],
                       "UNBANNED"))

\* admin_deactivate that leaves the live session in place
admin_deactivate_keeps_session(db, bans, key) ==
    IF ~has_license(db, key) THEN Resp(db, bans, "NotFound")
    ELSE admin_update(db, bans, key,
             log_event([get_license(db, key) EXCEPT !.is_active = FALSE],
                       "DEACTIVATED"))

admin_deactivate(db, bans, key) ==
    IF ~has_license(db, key) THEN Resp(db, bans, "NotFound")
    ELSE admin_update(db, bans, key,
             log_event(clear_session([get_license(db, key) EXCEPT
                                        !.is_active = FALSE]),
                       "DEACTIVATED"))

admin_reactivate(db, bans, key) ==
    IF ~has_license(db, key) THEN Resp(db, bans, "NotFound")
    ELSE IF get_license(db, key).is_banned THEN Resp(db, bans, "AlreadyBanned")
    ELSE admin_update(db, bans, key,
             log_event([get_license(db, key) EXCEPT !.is_active = TRUE],
                       "REACTIVATED"))

\* extend_base that counts from the stored expiry also when it has passed
extend_base_stale(lic, t) ==
    IF lic.expires_at # None THEN parse_dt(lic.expires_at) ELSE t

\* base = max(parse_dt(lic["expires_at"]), now) if lic.get("expires_at") else now
extend_base(lic, t) ==
    IF lic.expires_at # None THEN Max(parse_dt(lic.expires_at), t) ELSE t

\* the record admin_extend saves
extended_record(lic, days, t) ==
    log_event([lic EXCEPT
                 !.expires_at = isoformat(extend_base(lic, t) + days * DaySeconds),
                 !.is_active = TRUE],
              "EXTENDED")

\* admin_extend without the refusal for the lifetime class
admin_extend_any_class(db, bans, key, days, t) ==
    IF ~has_license(db, key) THEN Resp(db, bans, "NotFound")
    ELSE admin_update(db, bans, key,
             extended_record(get_license(db, key), days, t))

admin_extend(db, bans, key, days, t) ==
    IF ~has_license(db, key) THEN Resp(db, bans, "NotFound")
    ELSE IF get_license(db, key).duration_type = "lifetime"
    THEN Resp(db, bans, "NotExtendable")
    ELSE admin_update(db, bans, key,
             extended_record(get_license(db, key), days, t))

admin_delete(db, bans, key) ==
    IF ~has_license(db, key) THEN Resp(db, bans, "NotFound")
    ELSE Resp(delete_license(db, key), bans, "OK")

\* admin_set_warnet that only flips the mode flag
admin_set_warnet_flag_only(db, bans, key, is_warnet) ==
    IF ~has_license(db, key) THEN Resp(db, bans, "NotFound")
    ELSE admin_update(db, bans, key,
             log_event([get_license(db, key) EXCEPT !.is_warnet = is_warnet],
                       IF is_warnet THEN "WARNET_ENABLED"
                                    ELSE "WARNET_DISABLED"))

admin_set_warnet(db, bans, key, is_warnet) ==
    IF ~has_license(db, key) THEN Resp(db, bans, "NotFound")
    ELSE LET lic == [get_license(db, key) EXCEPT !.is_warnet = is_warnet]
         IN  admin_update(db, bans, key,
                 IF is_warnet
                 THEN log_event(clear_session([lic EXCEPT !.hwid = None]),
                                "WARNET_ENABLED")
                 ELSE log_event(clear_session(lic), "WARNET_DISABLED"))

admin_warnet_logout(db, bans, key) ==
    IF ~has_license(db, key) THEN Resp(db, bans, "NotFound")
    ELSE IF ~get_license(db, key).is_warnet THEN Resp(db, bans, "NotWarnet")
    ELSE admin_update(db, bans, key,
             log_event(clear_session(get_license(db, key)),
                       "WARNET_FORCE_LOGOUT"))

admin_unban_hwid(db, bans, hwid_hash) ==
    IF ~get_banned_hwid(bans, hwid_hash) THEN Resp(db, bans, "NotFound")
    ELSE Resp(db, delete_banned_hwid(bans, hwid_hash), "OK")

\* ---------------------------------------------------------------- behaviour
NoRequest == [op |-> "none", key |-> "", hwid |-> None, arg |-> None,
              result |-> "", time |-> 0, found |-> FALSE, before |-> None]

Idle == [pc |-> "idle", key |-> "", hwid |-> None, time |-> 0, lic |-> None,
         result |-> ""]

Init ==
    /\ licenses = <<>>
    /\ banned_hwids = <<>>
    /\ now = 0
    /\ env = [audit |-> FALSE, keys |-> {"DTC_Absolut_0a"}]
    /\ last = NoRequest
    /\ inflight = [t \in Threads |-> Idle]

\* one request handled from its first line to its response
Serve(op, key, hwid, arg, r) ==
    /\ licenses' = r.db
    /\ banned_hwids' = r.bans
    /\ last' = [op |-> op, key |-> key, hwid |-> hwid, arg |-> arg,
                result |-> r.result, time |-> now,
                found |-> has_license(licenses, key),
                before |-> IF has_license(licenses, key)
                           THEN get_license(licenses, key) ELSE None]
    /\ UNCHANGED <<now, env, inflight>>

Tick(d) ==
    /\ now + d <= MaxNow
    /\ now' = now + d
    /\ UNCHANGED <<licenses, banned_hwids, env, last, inflight>>

GenerateKey(duration_type, is_warnet) ==
    \E license_key \in generate_license_key(licenses) :
        Serve("generate", license_key, None, <<duration_type, is_warnet>>,
              generate_key(licenses, banned_hwids, duration_type, is_warnet,
                           license_key))

Validate(key, hwid) ==
    Serve("validate", key, hash_hwid(strip(hwid)), None,
          validate_license(licenses, banned_hwids, key,
                           hash_hwid(strip(hwid)), now))

Logout(key, hwid) ==
    Serve("logout", key, hash_hwid(strip(hwid)), None,
          logout_license(licenses, banned_hwids, key, hash_hwid(strip(hwid))))

ResetHwid(key) ==
    Serve("reset", key, None, None, admin_reset_hwid(licenses, banned_hwids, key))

Ban(key, reason, ban_hwid) ==
    Serve("ban", key, None, <<ban_hwid>>,
          admin_ban_license(licenses, banned_hwids, key, reason, ban_hwid))

Unban(key) ==
    Serve("unban", key, None, None,
          admin_unban_license(licenses, banned_hwids, key))

Deactivate(key) ==
    Serve("deactivate", key, None, None,
          admin_deactivate(licenses, banned_hwids, key))

Reactivate(key) ==
    Serve("reactivate", key, None, None,
          admin_reactivate(licenses, banned_hwids, key))

Extend(key, days) ==
    /\ has_license(licenses, key) =>
          extend_base(get_license(licenses, key), now) + days * DaySeconds
              <= MaxExpiry
    /\ Serve("extend", key, None, <<days>>,
             admin_extend(licenses, banned_hwids, key, days, now))

Delete(key) ==
    Serve("delete", key, None, None, admin_delete(licenses, banned_hwids, key))

SetWarnet(key, is_warnet) ==
    Serve("set_warnet", key, None, <<is_warnet>>,
          admin_set_warnet(licenses, banned_hwids, key, is_warnet))

WarnetLogout(key) ==
    Serve("warnet_logout", key, None, None,
          admin_warnet_logout(licenses, banned_hwids, key))

UnbanHwid(hwid) ==
    Serve("unban_hwid", "", hash_hwid(strip(hwid)), None,
          admin_unban_hwid(licenses, banned_hwids, hash_hwid(strip(hwid))))

Next ==
    \/ \E d \in TickDeltas : Tick(d)
    \/ \E dt \in DurationInputs, w \in BOOLEAN : GenerateKey(dt, w)
    \/ \E k \in KeyInputs, h \in Hwids : Validate(k, h)
    \/ \E k \in KeyInputs, h \in Hwids : Logout(k, h)
    \/ \E k \in AdminKeys : ResetHwid(k)
    \/ \E k \in AdminKeys, r \in BanReasons, b \in BOOLEAN : Ban(k, r, b)
    \/ \E k \in AdminKeys : Unban(k)
    \/ \E k \in AdminKeys : Deactivate(k)
    \/ \E k \in AdminKeys : Reactivate(k)
    \/ \E k \in AdminKeys, n \in ExtendDays : Extend(k, n)
    \/ \E k \in AdminKeys : Delete(k)
    \/ \E k \in AdminKeys, w \in BOOLEAN : SetWarnet(k, w)
    \/ \E k \in AdminKeys : WarnetLogout(k)
    \/ \E h \in Hwids : UnbanHwid(h)

Spec == Init /\ [][Next]_vars

\* ------------------------------------------------ requests handled in parallel
\* /api/validate as the server's threads run it: the handler reads the clock
\* and the denylist, loads the record, and later saves what it computed from
\* the record it loaded.  Nothing in the handler or the store layer holds a
\* lock between the load and the save.
Frame(pc, key, hwid_hash, t, lic, result) ==
    [pc |-> pc, key |-> key, hwid |-> hwid_hash, time |-> t, lic |-> lic,
     result |-> result]

Move(th, frame) ==
    /\ inflight' = [inflight EXCEPT ![th] = frame]
    /\ UNCHANGED <<now, env, last>>

\* current_time = datetime.now(TIMEZONE); get_banned_hwid(hwid_hash)
ValidateArrive(th, key, hwid) ==
    /\ inflight[th].pc = "idle"
    /\ Move(th, IF get_banned_hwid(banned_hwids, hash_hwid(strip(hwid)))
                THEN Frame("done", key, hash_hwid(strip(hwid)), now, None,
                           "GloballyBanned")
                ELSE Frame("lookup", key, hash_hwid(strip(hwid)), now, None,
                           ""))
    /\ UNCHANGED <<licenses, banned_hwids>>

\* lic = get_license(license_key) and the checks that deny without writing
ValidateLoad(th) ==
    /\ inflight[th].pc = "lookup"
    /\ Move(th, LET f == inflight[th]
                IN  IF validate_gate(licenses, f.key) # ""
                    THEN [f EXCEPT !.pc = "done",
                                   !.result = validate_gate(licenses, f.key)]
                    ELSE [f EXCEPT !.pc = "loaded",
                                   !.lic = get_license(licenses, f.key)])
    /\ UNCHANGED <<licenses, banned_hwids>>

\* the mode branch and the expiry check on the loaded record, save_license
ValidateSave(th) ==
    /\ inflight[th].pc = "loaded"
    /\ LET f == inflight[th]
           r == validate_loaded(f.lic, f.hwid, f.time)
       IN  /\ licenses' = save_license(licenses, r.lic)
           /\ Move(th, [f EXCEPT !.pc = "done", !.result = r.result])
    /\ UNCHANGED banned_hwids

\* the response is sent and the thread takes the next request
ValidateReturn(th) ==
    /\ inflight[th].pc = "done"
    /\ Move(th, Idle)
    /\ UNCHANGED <<licenses, banned_hwids>>

NextConc ==
    \/ \E d \in TickDeltas : Tick(d)
    \/ \E dt \in DurationInputs, w \in BOOLEAN : GenerateKey(dt, w)
    \/ \E th \in Threads, k \in KeyInputs, h \in Hwids :
           ValidateArrive(th, k, h)
    \/ \E th \in Threads : ValidateLoad(th)
    \/ \E th \in Threads : ValidateSave(th)
    \/ \E th \in Threads : ValidateReturn(th)

SpecConc == Init /\ [][NextConc]_vars

\* ----------------------------------------------------- with the audit trail
\* The same server with log_event writing the audit trail of each record
\* (lic["logs"]).  The trail makes every history a state of its own, so the
\* requests are followed while the trail of the stored license is short.
InitAudit ==
    /\ licenses = <<>>
    /\ banned_hwids = <<>>
    /\ now = 0
    /\ env = [audit |-> TRUE, keys |-> {"DTC_Absolut_0a"}]
    /\ last = NoRequest
    /\ inflight = [t \in Threads |-> Idle]

ShortTrail == \A k \in DOMAIN licenses : Len(licenses[k].logs) < MaxLogged

FewDurations == {"lifetime", "demo_1min"}

\* the same with room for one entry more
LongTrail == \A k \in DOMAIN licenses : Len(licenses[k].logs) <= MaxLogged

NextAudit ==
    \/ \E d \in TickDeltas : ShortTrail /\ Tick(d)
    \/ \E dt \in FewDurations, w \in BOOLEAN : ShortTrail /\ GenerateKey(dt, w)
    \/ \E k \in AdminKeys, h \in Hwids : ShortTrail /\ Validate(k, h)
    \/ \E k \in AdminKeys, h \in Hwids : ShortTrail /\ Logout(k, h)
    \/ \E k \in AdminKeys, r \in BanReasons : ShortTrail /\ Ban(k, r, FALSE)
    \/ \E k \in AdminKeys : ShortTrail /\ Unban(k)
    \/ \E k \in AdminKeys : ShortTrail /\ Deactivate(k)
    \/ \E k \in AdminKeys : ShortTrail /\ Reactivate(k)
    \/ \E k \in AdminKeys : ShortTrail /\ Extend(k, 1)
    \/ \E k \in AdminKeys, w \in BOOLEAN : ShortTrail /\ SetWarnet(k, w)

SpecAudit == InitAudit /\ [][NextAudit]_vars

\* The requests that validate turns away at its first checks, with the
\* audit trail kept: a device put on the denylist by a ban, a banned and a
\* deactivated license, a key never issued.
NextDeny ==
    \/ \E dt \in FewDurations, w \in BOOLEAN :
           LongTrail /\ GenerateKey(dt, w)
    \/ \E k \in KeyInputs, h \in Hwids : LongTrail /\ Validate(k, h)
    \/ \E k \in AdminKeys, r \in BanReasons, b \in BOOLEAN :
           LongTrail /\ Ban(k, r, b)
    \/ \E k \in AdminKeys : LongTrail /\ Deactivate(k)
    \/ \E k \in AdminKeys : LongTrail /\ Unban(k)
    \/ \E h \in Hwids : LongTrail /\ UnbanHwid(h)
    \/ \E d \in TickDeltas : LongTrail /\ Tick(d)

SpecDeny == InitAudit /\ [][NextDeny]_vars

\* One license used for a long time by the device it is bound to, and banned
\* in the end (a ban can be repeated): the trail grows past its cap.
NextLog ==
    \/ \E dt \in FewDurations : GenerateKey(dt, FALSE)
    \/ \E k \in AdminKeys : Validate(k, "pcA")
    \/ \E k \in AdminKeys, r \in BanReasons : Ban(k, r, FALSE)

SpecLog == InitAudit /\ [][NextLog]_vars

\* -------------------------------------------- key generation in parallel
\* /api/generate-key as the server's threads run it.  generate_license_key
\* reads the stored keys once (existing), then draws until the draw is not in
\* that set; generate_key builds the record and saves it under the drawn key.
GenKeys == {"DTC_Absolut_0a", "DTC_Bacardi_0b"}

InitGen ==
    /\ licenses = <<>>
    /\ banned_hwids = <<>>
    /\ now = 0
    /\ env = [audit |-> FALSE, keys |-> GenKeys]
    /\ last = NoRequest
    /\ inflight = [t \in Threads |-> Idle]

GenFrame(pc, existing, key, duration_type, is_warnet, result) ==
    [pc |-> pc, existing |-> existing, key |-> key,
     duration_type |-> duration_type, is_warnet |-> is_warnet,
     result |-> result]

\* the duration class is checked; existing = the keys stored now
GenArrive(th, duration_type, is_warnet) ==
    /\ inflight[th].pc = "idle"
    /\ Move(th, IF duration_type \notin valid_types
                THEN GenFrame("done", {}, "", duration_type, is_warnet,
                              "InvalidDurationClass")
                ELSE GenFrame("drawing", DOMAIN licenses, "", duration_type,
                              is_warnet, ""))
    /\ UNCHANGED <<licenses, banned_hwids>>

\* one turn of the while loop: a draw, returned if it is not in existing
GenDraw(th) ==
    /\ inflight[th].pc = "drawing"
    /\ \E key \in env.keys :
           Move(th, IF key \notin inflight[th].existing
                    THEN [inflight[th] EXCEPT !.pc = "drawn", !.key = key]
                    ELSE inflight[th])
    /\ UNCHANGED <<licenses, banned_hwids>>

\* log_event(lic, "GENERATED"); save_license(lic)
GenSave(th) ==
    /\ inflight[th].pc = "drawn"
    /\ LET f == inflight[th]
       IN  /\ licenses' = save_license(licenses,
                              log_event(new_license(f.key, f.duration_type,
                                                    f.is_warnet),
                                        "GENERATED"))
           /\ Move(th, [f EXCEPT !.pc = "done", !.result = "Created"])
    /\ UNCHANGED banned_hwids

GenReturn(th) ==
    /\ inflight[th].pc = "done"
    /\ Move(th, Idle)
    /\ UNCHANGED <<licenses, banned_hwids>>

NextGen ==
    \/ \E th \in Threads, dt \in {"lifetime", "bogus"} :
           GenArrive(th, dt, FALSE)
    \/ \E th \in Threads : GenDraw(th)
    \/ \E th \in Threads : GenSave(th)
    \/ \E th \in Threads : GenReturn(th)
    \/ \E k \in GenKeys : Validate(k, "pcA")

SpecGen == InitGen /\ [][NextGen]_vars

\* ------------------------------------- a ban while requests are in flight
\* /api/logout as a thread runs it: the record is loaded, and the session is
\* cleared on the loaded record and saved when the caller holds it
LogoutLoad(th, key, hwid) ==
    /\ inflight[th].pc = "idle"
    /\ LET h == hash_hwid(strip(hwid))
           answer(result) == Frame("logout_done", key, h, now, None, result)
       IN  Move(th, IF ~has_license(licenses, key) THEN answer("InvalidKey")
                    ELSE IF ~get_license(licenses, key).is_warnet
                    THEN answer("OK")
                    ELSE IF get_license(licenses, key).warnet_active_hwid = h
                    THEN Frame("logout_loaded", key, h, now,
                               get_license(licenses, key), "")
                    ELSE answer("LoggedOut"))
    /\ UNCHANGED <<licenses, banned_hwids>>

LogoutSave(th) ==
    /\ inflight[th].pc = "logout_loaded"
    /\ LET f == inflight[th]
       IN  /\ licenses' = save_license(licenses,
                              log_event(clear_session(f.lic), "WARNET_LOGOUT"))
           /\ Move(th, [f EXCEPT !.pc = "logout_done", !.result = "LoggedOut"])
    /\ UNCHANGED banned_hwids

LogoutReturn(th) ==
    /\ inflight[th].pc = "logout_done"
    /\ Move(th, Idle)
    /\ UNCHANGED <<licenses, banned_hwids>>

\* the administrator's ban is served while validate and logout requests for
\* the same key are between their load and their save
NextBan ==
    \/ \E dt \in FewDurations, w \in BOOLEAN : GenerateKey(dt, w)
    \/ \E th \in Threads, k \in AdminKeys, h \in Hwids :
           ValidateArrive(th, k, h)
    \/ \E th \in Threads : ValidateLoad(th)
    \/ \E th \in Threads : ValidateSave(th)
    \/ \E th \in Threads : ValidateReturn(th)
    \/ \E th \in Threads, k \in AdminKeys, h \in Hwids : LogoutLoad(th, k, h)
    \/ \E th \in Threads : LogoutSave(th)
    \/ \E th \in Threads : LogoutReturn(th)
    \/ \E k \in AdminKeys, r \in BanReasons, b \in BOOLEAN : Ban(k, r, b)

SpecBan == Init /\ [][NextBan]_vars

\* --------------------------------------------- when a write to the store fails
\* The store calls raise when the database or the file cannot be written.
\* admin_ban_license has no try/except: the exception leaves the handler at
\* the failing call and the server answers 500, with the writes made before
\* that call kept.
Faults == {"none", "save_banned_hwid", "save_license"}

admin_ban_license_faulty(db, bans, key, reason, ban_hwid, fault) ==
    IF ~has_license(db, key) THEN Resp(db, bans, "NotFound")
    ELSE LET lic == banned_record(get_license(db, key), reason)
             h   == cascade_hwid(lic, ban_hwid)
             listed == save_banned_hwid(bans,
                           [hwid_hash |-> h, reason |-> reason,
                            license_key |-> lic.license_key])
         IN  IF h # None /\ fault = "save_banned_hwid"
             THEN Resp(db, bans, "ServerError")
             ELSE IF fault = "save_license"
             THEN Resp(db, IF h # None THEN listed ELSE bans, "ServerError")
             ELSE admin_ban_license(db, bans, key, reason, ban_hwid)

BanFaulty(key, reason, ban_hwid, fault) ==
    Serve("ban", key, None, <<ban_hwid>>,
          admin_ban_license_faulty(licenses, banned_hwids, key, reason,
                                   ban_hwid, fault))

NextFault ==
    \/ \E dt \in FewDurations, w \in BOOLEAN : GenerateKey(dt, w)
    \/ \E k \in KeyInputs, h \in Hwids : Validate(k, h)
    \/ \E k \in AdminKeys, r \in BanReasons, b \in BOOLEAN, f \in Faults :
           BanFaulty(k, r, b, f)
    \/ \E k \in AdminKeys : Unban(k)
    \/ \E k \in AdminKeys : ResetHwid(k)
    \/ \E h \in Hwids : UnbanHwid(h)

SpecFault == Init /\ [][NextFault]_vars

\* ------------------------------------------------ the flat-file store
\* Without MONGO_URI the store is one JSON file.  save_license reads the whole
\* file (_load_json), sets the record of its key in what it read, and writes
\* the whole of it back (_save_json); nothing locks the file in between.
FileFrame(f, lic, result, db, bans) ==
    [pc |-> "writing", key |-> f.key, hwid |-> f.hwid, time |-> f.time,
     lic |-> lic, result |-> result, db |-> db, bans |-> bans]

\* validate_license from the mode branch to db = _load_json() in save_license
FileSaveLoad(th) ==
    /\ inflight[th].pc = "loaded"
    /\ LET f == inflight[th]
           r == validate_loaded(f.lic, f.hwid, f.time)
       IN  Move(th, FileFrame(f, r.lic, r.result, licenses, banned_hwids))
    /\ UNCHANGED <<licenses, banned_hwids>>

\* db["licenses"][lic["license_key"]] = lic; _save_json(db)
FileSaveWrite(th) ==
    /\ inflight[th].pc = "writing"
    /\ LET f == inflight[th]
       IN  /\ licenses' = save_license(f.db, f.lic)
           /\ banned_hwids' = f.bans
           /\ Move(th, Frame("done", f.key, f.hwid, f.time, f.lic, f.result))

NextFile ==
    \/ \E dt \in {"lifetime"} : GenerateKey(dt, FALSE)
    \/ \E th \in Threads, k \in GenKeys : ValidateArrive(th, k, "pcA")
    \/ \E th \in Threads : ValidateLoad(th)
    \/ \E th \in Threads : FileSaveLoad(th)
    \/ \E th \in Threads : FileSaveWrite(th)
    \/ \E th \in Threads : ValidateReturn(th)
    \/ \E k \in GenKeys, r \in BanReasons : Ban(k, r, TRUE)

SpecFile == InitGen /\ [][NextFile]_vars

\* ------------------------------------------------------------------ claims
\* The last request addressed a stored license: Before is its record when the
\* request arrived, After its record now (no request was served since).
Hit(op) == last.op = op /\ last.found
Before == last.before
After == get_license(licenses, last.key)

Banned(h) == get_banned_hwid(banned_hwids, h)

\* C1: every stored license with is_banned = TRUE has is_active = FALSE
\* (stated as the claim states it; admin_extend breaks it)
C1_BannedImpliesInactive ==
    \A k \in DOMAIN licenses :
        licenses[k].is_banned => ~licenses[k].is_active

\* the live session of an unexpired active shared-terminal license is held
HoldsLiveSession(lic, t) ==
    /\ lic.is_warnet
    /\ lic.is_active
    /\ lic.warnet_active_hwid # None
    /\ ~is_expired(lic, t)

\* what C2 says of a validate that meets a live session
SessionRule ==
    IF last.hwid = Before.warnet_active_hwid
    THEN last.result = "Valid"
    ELSE /\ last.result = "SessionLockedByOther"
         /\ After.warnet_active_hwid = Before.warnet_active_hwid

\* C2 as stated: while a fingerprint holds the live session of an unexpired
\* active shared-terminal license, every validate from it succeeds and every
\* validate from another fingerprint is denied SessionLockedByOther and leaves
\* the session with its holder
C2_AsStated ==
    (Hit("validate") /\ HoldsLiveSession(Before, last.time)) => SessionRule

\* C2 amended: the same, for callers whose fingerprint is not on the global
\* denylist (a denylisted caller is denied GloballyBanned before the license
\* is looked at, and the record stays as it was)
C2_SharedSessionExclusive ==
    (Hit("validate") /\ HoldsLiveSession(Before, last.time))
        => IF Banned(last.hwid)
           THEN last.result = "GloballyBanned" /\ After = Before
           ELSE SessionRule

C2_Witness ==
    /\ Hit("validate")
    /\ HoldsLiveSession(Before, last.time)
    /\ Before.warnet_active_hwid # last.hwid
    /\ last.result = "SessionLockedByOther"
    /\ After.warnet_active_hwid = Before.warnet_active_hwid

\* two threads answered validate requests for the same shared-terminal license
\* from distinct fingerprints, each from a record it loaded with no live session
Raced(t1, t2) ==
    /\ t1 # t2
    /\ inflight[t1].pc = "done" /\ inflight[t1].lic # None
    /\ inflight[t2].pc = "done" /\ inflight[t2].lic # None
    /\ lower(inflight[t1].key) = lower(inflight[t2].key)
    /\ inflight[t1].hwid # inflight[t2].hwid
    /\ inflight[t1].lic.is_warnet /\ inflight[t2].lic.is_warnet
    /\ inflight[t1].lic.warnet_active_hwid = None
    /\ inflight[t2].lic.warnet_active_hwid = None

\* C3: of two validate requests from distinct fingerprints that run
\* concurrently on a shared-terminal license with no live session, at most one
\* returns success (stated as the claim states it; the handler takes no lock)
C3_NoDoubleGrant ==
    \A t1, t2 \in Threads :
        Raced(t1, t2) =>
            ~(inflight[t1].result = "Valid" /\ inflight[t2].result = "Valid")

\* the step serves one request (the clock stands still while it does)
Serves(op) == last'.op = op /\ now' = now /\ inflight' = inflight

\* the step serves a request for the license the request before it addressed
Follows(first, op) ==
    /\ Hit(first)
    /\ Serves(op)
    /\ last'.found
    /\ lower(last'.key) = lower(last.key)

\* reset binding on a permanent-mode license clears the binding and keeps
\* expires_at
ResetFrame ==
    (Hit("reset") /\ ~Before.is_warnet)
        => /\ last.result = "OK"
           /\ After.hwid = None
           /\ After.expires_at = Before.expires_at

\* C4 as stated: reset binding on a permanent-mode license clears
\* bound_fingerprint and leaves expires_at unchanged, and the next successful
\* validate binds the caller while expires_at still has its value from before
\* the reset
C4_AsStated ==
    /\ []ResetFrame
    /\ [][(Follows("reset", "validate") /\ ~Before.is_warnet
             /\ last'.result = "Valid")
            => /\ last'.before.hwid = None
               /\ get_license(licenses', last'.key).hwid = last'.hwid
               /\ get_license(licenses', last'.key).expires_at
                      = Before.expires_at]_vars

\* C4 amended: the same, where expires_at keeps its value from before the
\* reset when that value was set or the class is lifetime; a license reset
\* before its clock ever started gets expires_at = now + class offset from
\* that validate
C4_ResetKeepsExpiry ==
    /\ []ResetFrame
    /\ [][(Follows("reset", "validate") /\ ~Before.is_warnet
             /\ last'.result = "Valid")
            => /\ last'.before.hwid = None
               /\ get_license(licenses', last'.key).hwid = last'.hwid
               /\ get_license(licenses', last'.key).expires_at
                      = IF Before.expires_at # None
                           \/ Before.duration_type = "lifetime"
                        THEN Before.expires_at
                        ELSE isoformat(now + (IF Before.duration_type = "demo_1min"
                                              THEN DemoSeconds
                                              ELSE TrialSeconds))]_vars

\* a validate rebinds a permanent-mode license that was reset after its clock
\* had started, and the expiry is the one stored before
C4_Witness ==
    /\ Hit("validate")
    /\ last.result = "Valid"
    /\ ~Before.is_warnet
    /\ Before.hwid = None
    /\ Before.expires_at # None
    /\ Before.last_used # None
    /\ After.hwid = last.hwid
    /\ After.expires_at = Before.expires_at

KeepsRecord ==
    {"validate", "logout", "reset", "ban", "unban", "deactivate",
     "reactivate", "set_warnet", "warnet_logout"}

\* C5: a non-null expires_at is changed by no validate, logout, reset, ban,
\* unban, deactivate, reactivate or mode toggle (only extend changes it), and
\* a validate that changes expires_at found it null on a non-lifetime license
C5_ExpirySetOnce ==
    (last.op \in KeepsRecord /\ last.found)
        => /\ Before.expires_at # None => After.expires_at = Before.expires_at
           /\ After.expires_at # Before.expires_at
                 => /\ last.op = "validate"
                    /\ Before.expires_at = None
                    /\ Before.duration_type # "lifetime"

C5_Witness ==
    /\ Hit("validate")
    /\ last.result = "Valid"
    /\ Before.expires_at # None
    /\ Before.warnet_active_hwid = None
    /\ Before.is_warnet
    /\ After.warnet_active_hwid = last.hwid
    /\ After.expires_at = Before.expires_at

\* the offsets of the duration classes, in seconds
ClassOffset(duration_type) ==
    CASE duration_type = "demo_1min" -> DemoSeconds
      [] duration_type = "trial_6hours" -> TrialSeconds
      [] duration_type = "2weeks" -> TwoWeeksSeconds
      [] duration_type = "1month" -> MonthSeconds

\* a license as generate-key stores it, of a class that expires
Fresh(lic) ==
    /\ lic.duration_type # "lifetime"
    /\ lic.hwid = None /\ lic.warnet_active_hwid = None
    /\ lic.expires_at = None /\ lic.last_used = None
    /\ lic.is_active /\ ~lic.is_banned

\* the caller is the device the license is bound to or that holds its session
Holder(lic, h) ==
    IF lic.is_warnet THEN lic.warnet_active_hwid = h ELSE lic.hwid = h

\* an active license whose holder calls after expires_at
Overdue(lic, h, t) ==
    /\ lic.is_active /\ ~lic.is_banned
    /\ Holder(lic, h)
    /\ lic.expires_at # None /\ t > parse_dt(lic.expires_at)

FirstValidateStartsClock ==
    /\ last.result = "Valid"
    /\ After.expires_at
          = isoformat(last.time + ClassOffset(Before.duration_type))

OverdueValidateDenied ==
    /\ last.result = "DurationEnded"
    /\ ~After.is_active

\* C6 as stated: the first validate of a freshly issued non-lifetime license
\* succeeds and sets expires_at to the time of the call plus the class
\* offset; the first validate by the same fingerprint after expires_at is
\* denied DurationEnded and leaves is_active = FALSE
C6_AsStated ==
    /\ (Hit("validate") /\ Fresh(Before)) => FirstValidateStartsClock
    /\ (Hit("validate") /\ Overdue(Before, last.hwid, last.time))
          => OverdueValidateDenied

\* C6 amended: the same for a fingerprint that is not on the global denylist
\* (a denylisted fingerprint is denied GloballyBanned and the record stays
\* as it was: the clock does not start, is_active is not cleared)
C6_ClockStartsAndEnds ==
    /\ (Hit("validate") /\ Fresh(Before))
          => IF Banned(last.hwid)
             THEN last.result = "GloballyBanned" /\ After = Before
             ELSE FirstValidateStartsClock
    /\ (Hit("validate") /\ Overdue(Before, last.hwid, last.time))
          => IF Banned(last.hwid)
             THEN last.result = "GloballyBanned" /\ After = Before
             ELSE OverdueValidateDenied

\* a demo_1min license activated at 0 is found expired at 61 by its holder
C6_Witness ==
    /\ Hit("validate")
    /\ Before.duration_type = "demo_1min"
    /\ Overdue(Before, last.hwid, last.time)
    /\ Before.expires_at = isoformat(DemoSeconds)
    /\ last.time = DemoSeconds + 1
    /\ OverdueValidateDenied

\* C7: a ban with ban_hwid = TRUE on a license bound to F puts F on the
\* denylist; F leaves the denylist only by the denylist unban; and while F is
\* on it every validate from F is denied GloballyBanned, whatever key it names
\* and whatever the state of that license
C7_DenylistedAlwaysDenied ==
    /\ [](/\ (Hit("ban") /\ last.arg = <<TRUE>> /\ last.result = "OK"
                /\ Before.hwid # None) => Banned(Before.hwid)
          /\ (last.op = "validate" /\ Banned(last.hwid))
                => /\ last.result = "GloballyBanned"
                   /\ last.found => After = Before)
    /\ [][\A h \in DOMAIN banned_hwids :
             h \notin DOMAIN banned_hwids'
                 => last'.op = "unban_hwid" /\ last'.hwid = h]_vars

\* the banned device is turned away from a license that is itself in order
C7_Witness ==
    /\ Hit("validate")
    /\ Banned(last.hwid)
    /\ Before.is_active /\ ~Before.is_banned
    /\ Before.hwid = last.hwid
    /\ banned_hwids[last.hwid].license_key = Before.license_key
    /\ last.result = "GloballyBanned"

\* C8: logout returns a success outcome for every license key and hardware id
\* (stated as the claim states it; logout_license answers an unknown key with
\* 404 "Invalid Key")
C8_LogoutAlwaysSucceeds ==
    last.op = "logout" => last.result \in {"OK", "LoggedOut"}

\* the request before was a logout by the device that the license was bound
\* to (permanent mode) or that held its session (shared mode), and the step
\* serves a validate from another device
LogoutThenOther ==
    /\ Follows("logout", "validate")
    /\ Holder(Before, last.hwid)
    /\ last'.hwid # last.hwid

\* C9 as stated: after a first validate from A and a logout by A, a validate
\* from another fingerprint succeeds in shared-terminal mode and is denied
\* FingerprintMismatch in permanent-lock mode
C9_AsStated ==
    [][LogoutThenOther
         => last'.result = IF Before.is_warnet
                           THEN "Valid" ELSE "FingerprintMismatch"]_vars

\* C9 amended: the same for a caller that is not on the global denylist (it
\* is denied GloballyBanned) and, in shared-terminal mode, while expires_at has
\* not passed (after it the caller is denied DurationEnded); in permanent
\* mode the license is still active and not banned
C9_LogoutRoundTrip ==
    [][LogoutThenOther
         => last'.result =
              IF Banned(last'.hwid) THEN "GloballyBanned"
              ELSE IF Before.is_warnet
              THEN (IF is_expired(last'.before, now)
                    THEN "DurationEnded" ELSE "Valid")
              ELSE IF last'.before.is_banned THEN "LicenseBanned"
              ELSE IF ~last'.before.is_active THEN "LicenseInactive"
              ELSE "FingerprintMismatch"]_vars

\* another device opens the session that a logout released
C9_Witness ==
    /\ Hit("validate")
    /\ last.result = "Valid"
    /\ Before.is_warnet
    /\ Before.warnet_active_hwid = None
    /\ Before.last_used # None
    /\ Before.expires_at # None
    /\ After.warnet_active_hwid = last.hwid

\* C10: extend by N days on a non-lifetime license sets expires_at to
\* max(expires_at, now) + N days (now + N days when no expiry is stored), so
\* an expiry that has passed is replaced by now + N days
C10_ExtendFromMax ==
    (Hit("extend") /\ Before.duration_type # "lifetime")
        => /\ last.result = "OK"
           /\ After.expires_at =
                 isoformat((IF Before.expires_at = None
                               \/ parse_dt(Before.expires_at) < last.time
                            THEN last.time
                            ELSE parse_dt(Before.expires_at))
                           + last.arg[1] * DaySeconds)

C10_Witness ==
    /\ Hit("extend")
    /\ Before.expires_at # None
    /\ parse_dt(Before.expires_at) < last.time
    /\ After.expires_at = isoformat(last.time + last.arg[1] * DaySeconds)
    /\ After.expires_at # isoformat(parse_dt(Before.expires_at)
                                       + last.arg[1] * DaySeconds)

\* C11: extend on a lifetime license fails with NotExtendable and leaves the
\* stored record as it was (expires_at, is_active and the audit trail
\* included)
C11_LifetimeNotExtendable ==
    (Hit("extend") /\ Before.duration_type = "lifetime")
        => /\ last.result = "NotExtendable"
           /\ After = Before

\* a deactivated lifetime license with a trail is refused and stays inactive
C11_Witness ==
    /\ Hit("extend")
    /\ Before.duration_type = "lifetime"
    /\ ~Before.is_active
    /\ Len(Before.logs) >= 2
    /\ last.result = "NotExtendable"
    /\ ~After.is_active
    /\ After.expires_at = None
    /\ After.logs = Before.logs

\* C12: reactivate on a banned license fails with AlreadyBanned and leaves
\* the stored record as it was, is_active false and the audit trail without a
\* new entry; reactivate on a license that is not banned sets is_active
\* (stated as the claim states it; after ban and extend the banned record has
\* is_active = TRUE, and reactivate leaves that as it is)
C12_ReactivateRefusedWhenBanned ==
    Hit("reactivate")
        => IF Before.is_banned
           THEN /\ last.result = "AlreadyBanned"
                /\ After = Before
                /\ ~After.is_active
           ELSE /\ last.result = "OK"
                /\ After.is_active

\* unban clears the ban, sets is_active and keeps expires_at, the binding and
\* the mode
UnbanFrame ==
    Hit("unban")
        => /\ last.result = "OK"
           /\ ~After.is_banned
           /\ After.is_active
           /\ After.expires_at = Before.expires_at
           /\ After.hwid = Before.hwid
           /\ After.is_warnet = Before.is_warnet

\* the step serves the first validate after an unban that found expires_at
\* passed
ValidateAfterLateUnban ==
    /\ Follows("unban", "validate")
    /\ is_expired(Before, last.time)

\* the caller is another device than the one the license is bound to
\* (permanent mode) or than the one that holds its session (shared mode)
Foreign(lic, h) ==
    IF lic.is_warnet
    THEN lic.warnet_active_hwid # None /\ lic.warnet_active_hwid # h
    ELSE lic.hwid # None /\ lic.hwid # h

\* C13 as stated: unban sets is_banned = FALSE and is_active = TRUE and leaves
\* expires_at, bound_fingerprint and the mode unchanged, and a license
\* unbanned after expires_at has passed is denied DurationEnded at its next
\* validate
C13_AsStated ==
    /\ []UnbanFrame
    /\ [][ValidateAfterLateUnban => last'.result = "DurationEnded"]_vars

\* C13 amended: the same, where the next validate is denied DurationEnded
\* (and is_active cleared again) when its caller is not on the global
\* denylist and is not another device than the bound one or the session's
\* holder; a denylisted caller is denied GloballyBanned, another device
\* FingerprintMismatch or SessionLockedByOther
C13_UnbanKeepsExpiry ==
    /\ []UnbanFrame
    /\ [][ValidateAfterLateUnban
            => IF Banned(last'.hwid)
               THEN last'.result = "GloballyBanned"
               ELSE IF Foreign(After, last'.hwid)
               THEN last'.result = (IF After.is_warnet
                                    THEN "SessionLockedByOther"
                                    ELSE "FingerprintMismatch")
               ELSE /\ last'.result = "DurationEnded"
                    /\ ~get_license(licenses', last'.key).is_active]_vars

\* a banned license whose expiry has passed is unbanned with that expiry
C13_Witness ==
    /\ Hit("unban")
    /\ Before.is_banned /\ ~Before.is_active
    /\ Before.hwid # None
    /\ is_expired(Before, last.time)
    /\ After.is_active /\ ~After.is_banned
    /\ After.expires_at = Before.expires_at
    /\ is_expired(After, now)

\* the toggle stores the requested mode with no session, and with no binding
\* when it switches into shared mode or out of it
SetWarnetFrame ==
    Hit("set_warnet")
        => /\ last.result = "OK"
           /\ After.is_warnet = last.arg[1]
           /\ After.warnet_active_hwid = None
           /\ After.warnet_session_start = None
           /\ (last.arg[1] \/ Before.is_warnet) => After.hwid = None

\* C14: switching into shared-terminal mode leaves bound_fingerprint,
\* session_fingerprint and session_started_at null; switching out of it
\* leaves the two session fields null, and the next successful validate in
\* permanent mode binds its caller as the new binding
C14_ToggleClearsBinding ==
    /\ []SetWarnetFrame
    /\ [][(Follows("set_warnet", "validate") /\ Before.is_warnet
             /\ last.arg = <<FALSE>> /\ last'.result = "Valid")
            => /\ last'.before.hwid = None
               /\ ~get_license(licenses', last'.key).is_warnet
               /\ get_license(licenses', last'.key).hwid = last'.hwid
               /\ get_license(licenses', last'.key).warnet_active_hwid = None]_vars

\* a shared-terminal license with a live session is switched to permanent
\* mode
C14_Witness ==
    /\ Hit("set_warnet")
    /\ last.arg = <<FALSE>>
    /\ Before.is_warnet
    /\ Before.warnet_active_hwid # None
    /\ Before.warnet_session_start # None
    /\ ~After.is_warnet
    /\ After.warnet_active_hwid = None
    /\ After.warnet_session_start = None
    /\ After.hwid = None

\* new is old with n entries appended at the tail and, beyond LogCap entries,
\* the oldest ones dropped: the entries kept are in their order
Kept(old, new, n) ==
    LET drop == Max(Len(old) + n - LogCap, 0)
    IN  /\ Len(new) = Len(old) + n - drop
        /\ \A i \in 1..(Len(old) - drop) : new[i] = old[i + drop]

\* C15: no stored audit trail holds more than 50 entries; every logged event
\* is appended at the tail and, when the trail is full, the oldest entries are
\* evicted, so that the most recent 50 remain in their original order
C15_TrailCapped ==
    /\ \A k \in DOMAIN licenses : Len(licenses[k].logs) <= LogCap
    /\ Hit("ban")
          => /\ Kept(Before.logs, After.logs, 1)
             /\ After.logs[Len(After.logs)] = "BANNED"
    /\ Hit("validate")
          => IF last.result = "Valid"
             THEN /\ Kept(Before.logs, After.logs,
                          IF Before.hwid = None THEN 2 ELSE 1)
                  /\ After.logs[Len(After.logs)] = "VALIDATED"
             ELSE After.logs = Before.logs

\* the trail was full and had lost its first entries when the ban was logged
C15_Witness ==
    /\ Hit("ban")
    /\ Len(Before.logs) = LogCap
    /\ Before.logs[1] = "VALIDATED"
    /\ Before.logs[LogCap] = "BANNED"
    /\ Len(After.logs) = LogCap
    /\ After.logs[1] = Before.logs[2]
    /\ After.logs[LogCap - 1] = Before.logs[LogCap]
    /\ After.logs[LogCap] = "BANNED"

\* C16: the key under which generate-key saves the new record is the key of
\* no license in the store at that moment, also with two generate-key
\* requests running at once, so that issuing a license overwrites no record
\* (stated as the claim states it; the draw is compared with the keys read
\* before the loop, not with the store at the time of the save)
C16_NeverOverwrites ==
    [][\A th \in Threads :
          (inflight[th].pc = "drawn" /\ inflight'[th].pc = "done")
              => ~has_license(licenses, inflight[th].key)]_vars

\* a validate that passed the denylist, ban and inactive checks on a license
\* whose expires_at had passed
LateValidate ==
    /\ Hit("validate")
    /\ ~Banned(last.hwid)
    /\ Before.is_active /\ ~Before.is_banned
    /\ is_expired(Before, last.time)

\* C17 as stated: every validate that passes the ban and inactive checks on
\* a license whose expires_at has passed stores is_active = FALSE, whatever
\* fingerprint the caller presents
C17_AsStated ==
    LateValidate => ~After.is_active

\* C17 amended: such a validate stores is_active = FALSE and is denied
\* DurationEnded when the caller is the bound device or the session's holder
\* or the license has no binding or live session; a caller that is another
\* device is denied FingerprintMismatch or SessionLockedByOther before the
\* expiry is looked at, and is_active stays TRUE
C17_ExpiryFoundByHolder ==
    LateValidate
        => IF Foreign(Before, last.hwid)
           THEN /\ last.result = (IF Before.is_warnet
                                  THEN "SessionLockedByOther"
                                  ELSE "FingerprintMismatch")
                /\ After.is_active
                /\ After.expires_at = Before.expires_at
           ELSE /\ last.result = "DurationEnded"
                /\ ~After.is_active

\* a license reset after its activation is found expired by the device that
\* binds it next
C17_Witness ==
    /\ LateValidate
    /\ ~Before.is_warnet
    /\ Before.hwid = None
    /\ Before.last_used # None
    /\ last.result = "DurationEnded"
    /\ After.hwid = last.hwid
    /\ ~After.is_active

\* C18: a ban that has completed is undone by no validate or logout that was
\* in flight on the same key: once ban has returned, the stored record has
\* is_banned = TRUE and is_active = FALSE for as long as no other
\* administrative request is served
\* (stated as the claim states it; a request that loaded the record before
\* the ban saves that record over the banned one)
C18_BanStands ==
    (Hit("ban") /\ last.result = "OK")
        => /\ After.is_banned
           /\ ~After.is_active

\* the logout came from the device that held the live session
LogoutByHolder ==
    /\ Hit("logout")
    /\ Before.is_warnet
    /\ Before.warnet_active_hwid = last.hwid

\* C19: a logout on a shared-terminal license clears session_fingerprint and
\* session_started_at exactly when the live session's fingerprint is the
\* caller's, and then leaves expires_at, is_active and bound_fingerprint as
\* they were; in every other case (another holder, no session, permanent
\* mode) the stored record is unchanged; a second identical logout changes
\* nothing
C19_LogoutFrame ==
    /\ [](Hit("logout")
            => IF LogoutByHolder
               THEN /\ After.warnet_active_hwid = None
                    /\ After.warnet_session_start = None
                    /\ After.expires_at = Before.expires_at
                    /\ After.is_active = Before.is_active
                    /\ After.hwid = Before.hwid
               ELSE After = Before)
    /\ [][(Follows("logout", "logout") /\ last'.hwid = last.hwid)
            => licenses' = licenses]_vars

\* the holder of a running session logs out and the expiry stays
C19_Witness ==
    /\ LogoutByHolder
    /\ Before.warnet_session_start # None
    /\ Before.expires_at # None
    /\ After.warnet_active_hwid = None
    /\ After.warnet_session_start = None
    /\ After.expires_at = Before.expires_at
    /\ After.is_active
    /\ Len(After.logs) = Len(Before.logs) + 1

\* the newest entry of an audit trail
Newest(logs) == logs[Len(logs)]

\* C20: every validate denied SessionLockedByOther, FingerprintMismatch or
\* DurationEnded has saved its change when it returns: the stored trail has
\* gained the entry of the denial at its tail (after the entry of the bind or
\* of the session, when the denied request made one), and for DurationEnded
\* the stored is_active is FALSE
C20_DenialsPersisted ==
    Hit("validate")
        => /\ last.result = "SessionLockedByOther"
                => /\ Kept(Before.logs, After.logs, 1)
                   /\ Newest(After.logs) = "WARNET_LOCKED"
           /\ last.result = "FingerprintMismatch"
                => /\ Kept(Before.logs, After.logs, 1)
                   /\ Newest(After.logs) = "HWID_MISMATCH"
           /\ last.result = "DurationEnded"
                => /\ Kept(Before.logs, After.logs,
                           IF ~Before.is_warnet /\ Before.hwid = last.hwid
                           THEN 1 ELSE 2)
                   /\ Newest(After.logs) = "AUTO_EXPIRED"
                   /\ ~After.is_active

\* the second denied attempt in a row is in the stored trail next to the
\* first one
C20_Witness ==
    /\ Hit("validate")
    /\ last.result = "FingerprintMismatch"
    /\ Newest(Before.logs) = "HWID_MISMATCH"
    /\ Len(After.logs) = Len(Before.logs) + 1
    /\ Newest(After.logs) = "HWID_MISMATCH"
    /\ After.logs[Len(After.logs) - 1] = "HWID_MISMATCH"

\* C21: a ban with cascade whose write of the license record fails leaves no
\* half-state: the step does not put the bound fingerprint on the denylist
\* while the stored license stays not banned
\* (stated as the claim states it; the denylist entry is written before the
\* license record and is kept when the later write raises)
C21_BanAllOrNothing ==
    [][(Serves("ban") /\ last'.found /\ last'.result = "ServerError")
         => ~(/\ last'.before.hwid \in DOMAIN banned_hwids'
              /\ last'.before.hwid \notin DOMAIN banned_hwids
              /\ ~get_license(licenses', last'.key).is_banned)]_vars

\* C22: key generation terminates: a request in the draw loop always has a
\* way out of it, also when every draw collides with a stored key
\* (stated as the claim states it; the loop has no retry bound and no error
\* exit, so a request whose draws are all among the keys it read turns in the
\* loop without end)
C22_DrawLoopEnds ==
    \A th \in Threads :
        inflight[th].pc = "drawing" => ENABLED <<GenDraw(th)>>_vars

\* C23: validate answers success only if the caller's fingerprint is not on
\* the denylist, the license it found was not banned and was active, the
\* expiry is null or not before the time of the call, and the record it
\* saved names the caller as the bound device (permanent mode) or as the
\* holder of the live session (shared mode)
C23_SuccessOnlyIf ==
    (last.op = "validate" /\ last.result = "Valid")
        => /\ last.found
           /\ ~Banned(last.hwid)
           /\ ~Before.is_banned /\ ~After.is_banned
           /\ Before.is_active /\ After.is_active
           /\ Before.expires_at # None
                 => After.expires_at = Before.expires_at
           /\ After.expires_at # None
                 => parse_dt(After.expires_at) >= last.time
           /\ IF After.is_warnet
              THEN After.warnet_active_hwid = last.hwid
              ELSE After.hwid = last.hwid

\* after a ban with cascade, an unban and a reset, another device binds the
\* license while the first one is on the denylist
C23_Witness ==
    /\ Hit("validate")
    /\ last.result = "Valid"
    /\ ~Before.is_warnet
    /\ Before.hwid = None
    /\ Before.last_used # None
    /\ Before.expires_at # None
    /\ After.hwid = last.hwid
    /\ \E h \in DOMAIN banned_hwids :
           h # last.hwid /\ banned_hwids[h].license_key = After.license_key

\* C24: a lifetime license has expires_at null in every reachable state, and
\* no validate on it is denied DurationEnded or clears is_active
C24_LifetimeNeverExpires ==
    /\ \A k \in DOMAIN licenses :
           licenses[k].duration_type = "lifetime"
               => licenses[k].expires_at = None
    /\ (Hit("validate") /\ Before.duration_type = "lifetime")
           => /\ last.result # "DurationEnded"
              /\ After.is_active = Before.is_active

\* a lifetime license in use is validated again after the clock has moved
C24_Witness ==
    /\ Hit("validate")
    /\ Before.duration_type = "lifetime"
    /\ Before.last_used # None
    /\ last.time > parse_dt(Before.last_used)
    /\ last.result = "Valid"
    /\ After.expires_at = None
    /\ After.is_active

\* C25: in every reachable state a license of a class other than lifetime
\* that has a bound fingerprint or a live session has a stored expires_at
C25_BoundImpliesClockStarted ==
    \A k \in DOMAIN licenses :
        (/\ licenses[k].duration_type # "lifetime"
         /\ \/ licenses[k].hwid # None
            \/ licenses[k].warnet_active_hwid # None)
            => licenses[k].expires_at # None

\* the first device takes a fresh shared-terminal license and its clock
\* starts with the session
C25_Witness ==
    /\ Hit("validate")
    /\ last.result = "Valid"
    /\ Before.duration_type # "lifetime"
    /\ Before.is_warnet
    /\ Before.warnet_active_hwid = None
    /\ Before.expires_at = None
    /\ After.warnet_active_hwid = last.hwid
    /\ After.expires_at = isoformat(last.time + ClassOffset(After.duration_type))

\* C26: in every reachable state a license in shared-terminal mode has no
\* bound fingerprint, a license in permanent-lock mode has no session
\* fingerprint and no session start, and a banned or inactive license has no
\* live session
C26_ModesDoNotMix ==
    \A k \in DOMAIN licenses :
        LET lic == licenses[k]
        IN  /\ lic.is_warnet => lic.hwid = None
            /\ ~lic.is_warnet
                  => /\ lic.warnet_active_hwid = None
                     /\ lic.warnet_session_start = None
            /\ (lic.is_banned \/ ~lic.is_active)
                  => /\ lic.warnet_active_hwid = None
                     /\ lic.warnet_session_start = None

\* a shared-terminal license is deactivated while a device holds its session
C26_Witness ==
    /\ Hit("deactivate")
    /\ Before.is_warnet
    /\ Before.warnet_active_hwid # None
    /\ Before.hwid = None
    /\ ~After.is_active
    /\ After.is_warnet
    /\ After.warnet_active_hwid = None
    /\ After.warnet_session_start = None

\* the denials validate gives at its first checks
EarlyDenials ==
    {"GloballyBanned", "UnknownKey", "LicenseBanned", "LicenseInactive"}

\* C27: a validate denied GloballyBanned, UnknownKey, LicenseBanned or
\* LicenseInactive leaves the whole store as it was (no license field, no
\* audit entry, no denylist entry is written), and last_used_at changes only
\* on a validate that answers success
C27_EarlyDenialsWriteNothing ==
    /\ []((last.found /\ has_license(licenses, last.key)
             /\ After.last_used # Before.last_used)
            => last.op = "validate" /\ last.result = "Valid")
    /\ [][(Serves("validate") /\ last'.result \in EarlyDenials)
            => licenses' = licenses /\ banned_hwids' = banned_hwids]_vars

\* the device a ban put on the denylist is turned away and the trail of the
\* license is as the ban left it
C27_Witness ==
    /\ Hit("validate")
    /\ last.result = "GloballyBanned"
    /\ Before.hwid = last.hwid
    /\ Newest(Before.logs) = "HWID_BANNED"
    /\ After = Before
    /\ banned_hwids[last.hwid].license_key = Before.license_key

\* C28: a save of the record of one key changes the record of that key only:
\* no record of another key and no denylist entry is changed or removed by
\* it, also when requests for different keys are served at the same time on
\* the flat-file store
\* (stated as the claim states it; the file is read and written as a whole)
C28_SaveTouchesOneKey ==
    [][\A th \in Threads :
          (inflight[th].pc = "writing" /\ inflight'[th].pc = "done")
              => /\ \A k \in DOMAIN licenses :
                        k # inflight[th].lic.license_key
                            => k \in DOMAIN licenses'
                               /\ licenses'[k] = licenses[k]
                 /\ banned_hwids' = banned_hwids]_vars

====
